---- MODULE Spec2Model ----
(***************************************************************************)
(* A model of CAISO.get_historical_lmp (src/isodata/caiso.py): the dated   *)
(* query, the bounded retry of the bulk GET, ZIP/CSV unpacking, the        *)
(* long-to-wide pivot, the schema normalisation and the two sleeps.        *)
(*                                                                         *)
(* Instants are minutes since 1970-01-01T00:00Z.  A formatted timestamp is *)
(* a sequence of one-character strings.  A table is a record               *)
(* [columns |-> sequence of names, rows |-> sequence of records].          *)
(***************************************************************************)
EXTENDS Integers, Sequences, FiniteSets, TLC

VARIABLES
    pc,        \* where the call is: idle, get, pause, unpack, pivot, normalize, sleep, returned, raised
    date,      \* argument: the calendar day asked for, [y, m, d]
    market,    \* argument: the market asked for
    nodes,     \* argument: the node list, or None
    sleep,     \* argument: the politeness delay in seconds
    url,       \* the query built at line 221
    PRICE_COL, \* the value column chosen with the market
    retry_num, \* the loop counter of lines 223-233
    r,         \* the latest response
    trace,     \* the GETs and sleeps issued so far, in order
    zbytes,    \* the bytes handed to ZipFile at line 235
    raw,       \* the long table parsed from the CSV (lines 237-245)
    df,        \* the table being built
    data,      \* the node-filtered table of line 273
    result,    \* the table returned to the caller
    error      \* the exception that left the call, or None

vars == <<pc, date, market, nodes, sleep, url, PRICE_COL, retry_num, r, trace,
          zbytes, raw, df, data, result, error>>

None == "None"
NaN == "NaN"

(***************************************************************************)
(* Calendar arithmetic (proleptic Gregorian), as pandas computes it.       *)
(***************************************************************************)
DaysFromCivil(y, m, d) ==
    LET yy  == IF m <= 2 THEN y - 1 ELSE y
        era == yy \div 400
        yoe == yy - era * 400
        mp  == IF m > 2 THEN m - 3 ELSE m + 9
        doy == (153 * mp + 2) \div 5 + d - 1
        doe == yoe * 365 + yoe \div 4 - yoe \div 100 + doy
    IN  era * 146097 + doe - 719468

CivilFromDays(z) ==
    LET zz  == z + 719468
        era == zz \div 146097
        doe == zz - era * 146097
        yoe == (doe - doe \div 1460 + doe \div 36524 - doe \div 146096) \div 365
        doy == doe - (365 * yoe + yoe \div 4 - yoe \div 100)
        mp  == (5 * doy + 2) \div 153
        d   == doy - (153 * mp + 2) \div 5 + 1
        m   == IF mp < 10 THEN mp + 3 ELSE mp - 9
        y   == yoe + era * 400 + (IF m <= 2 THEN 1 ELSE 0)
    IN  [y |-> y, m |-> m, d |-> d]

\* 0 = Sunday; 1970-01-01 was a Thursday.
Weekday(days) == (days + 4) % 7

FirstSundayOf(y, m) ==
    LET first == DaysFromCivil(y, m, 1)
    IN  first + ((7 - Weekday(first)) % 7)

(***************************************************************************)
(* US/Pacific: daylight time from 02:00 PST on the second Sunday of March  *)
(* to 02:00 PDT on the first Sunday of November.                           *)
(***************************************************************************)
DstStartDay(y) == FirstSundayOf(y, 3) + 7
DstEndDay(y) == FirstSundayOf(y, 11)

\* UTC offset, in minutes, of the wall-clock midnight that starts local day `days`.
OffsetAtLocalMidnight(days) ==
    LET y == CivilFromDays(days).y
    IN  IF DstStartDay(y) < days /\ days <= DstEndDay(y) THEN -420 ELSE -480

\* UTC offset, in minutes, in force at a UTC instant.
OffsetAtInstant(t) ==
    LET y == CivilFromDays(t \div 1440).y
    IN  IF DstStartDay(y) * 1440 + 600 <= t /\ t < DstEndDay(y) * 1440 + 540
        THEN -420 ELSE -480

\* utils._handle_date(date, tz="US/Pacific"): midnight of the day, localized.
HandleDate(dt) ==
    LET days == DaysFromCivil(dt.y, dt.m, dt.d)
    IN  [utc |-> days * 1440 - OffsetAtLocalMidnight(days),
         tz |-> "US/Pacific"]

\* Timestamp.tz_convert("UTC"): the same instant, read on the UTC clock.
TzConvertUTC(ts) == [utc |-> ts.utc, tz |-> "UTC"]

\* The wall-clock fields a timestamp shows in its own zone.
WallClock(ts) ==
    LET off   == IF ts.tz = "UTC" THEN 0 ELSE OffsetAtInstant(ts.utc)
        local == ts.utc + off
        c     == CivilFromDays(local \div 1440)
        mins  == local % 1440
    IN  [y |-> c.y, m |-> c.m, d |-> c.d, hh |-> mins \div 60, mm |-> mins % 60,
         utcoffset |-> off]

\* ts + pd.DateOffset(1): one calendar day later on the wall clock of ts's own zone.
PlusDateOffset1(ts) ==
    IF ts.tz = "UTC"
    THEN [utc |-> ts.utc + 1440, tz |-> "UTC"]
    ELSE LET w    == WallClock(ts)
             days == DaysFromCivil(w.y, w.m, w.d) + 1
         IN  [utc |-> days * 1440 - OffsetAtLocalMidnight(days) + w.hh * 60 + w.mm,
              tz |-> ts.tz]

Digits == <<"0", "1", "2", "3", "4", "5", "6", "7", "8", "9">>
Digit(n) == Digits[n + 1]
Pad2(n) == <<Digit((n \div 10) % 10), Digit(n % 10)>>
Pad4(n) == <<Digit((n \div 1000) % 10), Digit((n \div 100) % 10)>> \o Pad2(n)

\* ts.strftime("%Y%m%dT%H:%M-0000")
Strftime(ts) ==
    LET w == WallClock(ts)
    IN  Pad4(w.y) \o Pad2(w.m) \o Pad2(w.d) \o <<"T">> \o Pad2(w.hh) \o <<":">>
        \o Pad2(w.mm) \o <<"-", "0", "0", "0", "0">>


(***************************************************************************)
(* Markets and the query.                                                  *)
(***************************************************************************)
DAY_AHEAD_HOURLY == "DAY_AHEAD_HOURLY"
REAL_TIME_15_MIN == "REAL_TIME_15_MIN"
REAL_TIME_HOURLY == "REAL_TIME_HOURLY"
REAL_TIME_5_MIN == "REAL_TIME_5_MIN"

SupportedMarkets == {DAY_AHEAD_HOURLY, REAL_TIME_15_MIN, REAL_TIME_HOURLY}

trading_hubs_nodes == <<"TH_NP15_GEN-APND", "TH_SP15_GEN-APND", "TH_ZP26_GEN-APND">>

\* A variant in which an unknown market falls through to the day-ahead parameters.
MarketParamsDefaulting(m) ==
    CASE m = REAL_TIME_15_MIN ->
           [supported |-> TRUE, query_name |-> "PRC_RTPD_LMP", market_run_id |-> "RTPD",
            version |-> 3, PRICE_COL |-> "PRC"]
      [] m = REAL_TIME_HOURLY ->
           [supported |-> TRUE, query_name |-> "PRC_HASP_LMP", market_run_id |-> "HASP",
            version |-> 3, PRICE_COL |-> "MW"]
      [] OTHER ->
           [supported |-> TRUE, query_name |-> "PRC_LMP", market_run_id |-> "DAM",
            version |-> 12, PRICE_COL |-> "MW"]

\* The if/elif chain of lines 203-219; supported = FALSE is the RuntimeError.
MarketParams(m) ==
    CASE m = DAY_AHEAD_HOURLY ->
           [supported |-> TRUE, query_name |-> "PRC_LMP", market_run_id |-> "DAM",
            version |-> 12, PRICE_COL |-> "MW"]
      [] m = REAL_TIME_15_MIN ->
           [supported |-> TRUE, query_name |-> "PRC_RTPD_LMP", market_run_id |-> "RTPD",
            version |-> 3, PRICE_COL |-> "PRC"]
      [] m = REAL_TIME_HOURLY ->
           [supported |-> TRUE, query_name |-> "PRC_HASP_LMP", market_run_id |-> "HASP",
            version |-> 3, PRICE_COL |-> "MW"]
      [] OTHER ->
           [supported |-> FALSE, query_name |-> "", market_run_id |-> "",
            version |-> 0, PRICE_COL |-> ""]

\* nodes, or the trading hubs when the caller gave None (lines 189-190).
EffectiveNodes(arg) == IF arg.is_none THEN trading_hubs_nodes ELSE arg.list

\* ",".join(nodes)
RECURSIVE JoinComma(_)
JoinComma(s) ==
    IF Len(s) = 0 THEN <<>>
    ELSE IF Len(s) = 1 THEN <<s[1]>>
    ELSE <<s[1], ",">> \o JoinComma(Tail(s))

\* start and end of the query window (lines 193-201).
QueryStart(dt) == Strftime(TzConvertUTC(HandleDate(dt)))
QueryEnd(dt) == Strftime(PlusDateOffset1(TzConvertUTC(HandleDate(dt))))

\* The URL of line 221, as its query parameters.
BuildUrl(dt, m, nodeArg) ==
    LET p == MarketParams(m)
    IN  [resultformat |-> 6, queryname |-> p.query_name, version |-> p.version,
         startdatetime |-> QueryStart(dt), enddatetime |-> QueryEnd(dt),
         market_run_id |-> p.market_run_id, node |-> JoinComma(EffectiveNodes(nodeArg))]

NoUrl ==
    [resultformat |-> 0, queryname |-> "", version |-> 0, startdatetime |-> <<>>,
     enddatetime |-> <<>>, market_run_id |-> "", node |-> <<>>]

(***************************************************************************)
(* The retry loop (lines 223-233).                                         *)
(***************************************************************************)
MaxAttempts == 3
RetryPause == 5

NoContent == [zip |-> FALSE, members |-> <<>>]
NoResponse == [status_code |-> 0, content |-> NoContent]

GetEvent(resp) == [op |-> "GET", line |-> 225, secs |-> 0, response |-> resp]
SleepEvent(secs, line) == [op |-> "sleep", line |-> line, secs |-> secs, response |-> NoResponse]

\* A variant of the loop condition that allows one attempt more.
LoopContinuesOneMore(n) == n < MaxAttempts + 1

\* while retry_num < 3
LoopContinues(n) == n < MaxAttempts

\* A variant in which a failed final response raises instead of being unpacked.
AfterLoopRaising(resp) ==
    IF resp.status_code = 200
    THEN [pc |-> "unpack", error |-> None]
    ELSE [pc |-> "raised", error |-> "HTTPError"]

\* What follows the loop: line 235 is reached whatever the last status was.
AfterLoop(resp) == [pc |-> "unpack", error |-> None]


(***************************************************************************)
(* ZIP/CSV unpacking (lines 235-245).  A payload is [zip, members]; a CSV  *)
(* member is [header, rows], each row a record of text cells keyed by the  *)
(* header's names.  The time cell is kept as its GMT calendar fields.      *)
(***************************************************************************)
TIME_COL == "INTERVALSTARTTIME_GMT"
NODE_COL == "NODE"
TYPE_COL == "LMP_TYPE"

SeqToSet(s) == {s[i] : i \in 1..Len(s)}

EmptyTable == [columns |-> <<>>, rows |-> <<>>]

\* A float cell as read_csv parses it: an empty cell is NaN.
ParseFloat(cell) == IF cell = "" THEN NaN ELSE cell

UseCols(price_col) == {TIME_COL, NODE_COL, TYPE_COL, price_col}

\* pd.read_csv(member, usecols=[...]): the named columns, in the file's order.
ReadCsv(csv, price_col) ==
    LET keep == SelectSeq(csv.header, LAMBDA c : c \in UseCols(price_col))
    IN  [columns |-> keep,
         rows |-> [i \in 1..Len(csv.rows) |->
                     [c \in SeqToSet(keep) |->
                        IF c = price_col THEN ParseFloat(csv.rows[i][c])
                        ELSE csv.rows[i][c]]]]

\* The exception lines 235-245 raise on this payload, or None.
UnpackError(content, price_col) ==
    IF ~content.zip THEN "BadZipFile"
    ELSE IF Len(content.members) = 0 THEN "IndexError"
    ELSE IF ~(UseCols(price_col) \subseteq SeqToSet(content.members[1].header))
         THEN "ValueError"
    ELSE None

(***************************************************************************)
(* The long-to-wide pivot (lines 247-252).                                 *)
(***************************************************************************)
\* Strings in Python's sort order.
NodeNames == <<"NODE_A", "NODE_B", "TH_NP15_GEN-APND", "TH_SP15_GEN-APND", "TH_ZP26_GEN-APND">>
TypeNames == <<"LMP", "MCC", "MCE", "MCL", "MGHG">>

RankIn(names, x) == CHOOSE i \in 1..Len(names) : names[i] = x

\* The instant a GMT time cell names (pd.to_datetime).
ToInstant(t) == DaysFromCivil(t.y, t.m, t.d) * 1440 + t.hh * 60 + t.mm

\* The sort key of an index entry <<time, node>>: time first, then node.
IndexRank(ix) == ToInstant(ix[1]) * (Len(NodeNames) + 1) + RankIn(NodeNames, ix[2])

\* The index entries of S in increasing order.
SortedIndex(S) ==
    [i \in 1..Cardinality(S) |->
       CHOOSE x \in S : Cardinality({y \in S : IndexRank(y) < IndexRank(x)}) = i - 1]

\* The types of S in increasing order.
SortedTypes(S) == SelectSeq(TypeNames, LAMBDA ty : ty \in S)

\* The rows of one (time, node, type) group, as indexes in input order.
GroupRows(rows, t, n, ty) ==
    {i \in 1..Len(rows) :
       rows[i][TIME_COL] = t /\ rows[i][NODE_COL] = n /\ rows[i][TYPE_COL] = ty}

Min(S) == CHOOSE x \in S : \A y \in S : x <= y
Max(S) == CHOOSE x \in S : \A y \in S : x >= y

\* A variant aggregation that keeps the last value of the group.
AggLast(rows, G, price_col) ==
    LET valued == {i \in G : rows[i][price_col] # NaN}
    IN  IF valued = {} THEN NaN ELSE rows[Max(valued)][price_col]

\* aggfunc="first": GroupBy.first, the first value of the group that is not NaN.
AggFirst(rows, G, price_col) ==
    LET valued == {i \in G : rows[i][price_col] # NaN}
    IN  IF valued = {} THEN NaN ELSE rows[Min(valued)][price_col]

\* df.pivot_table(index=[time, node], columns=type, values=price, aggfunc="first"):
\* groups whose aggregate is NaN are dropped (dropna=True), the index is sorted by
\* (time, node) and the columns by type.
PivotTable(t, price_col) ==
    LET rows   == t.rows
        keys   == {<<rows[i][TIME_COL], rows[i][NODE_COL], rows[i][TYPE_COL]>> :
                     i \in 1..Len(rows)}
        agg(k) == AggFirst(rows, GroupRows(rows, k[1], k[2], k[3]), price_col)
        kept   == {k \in keys : agg(k) # NaN}
        index  == {<<k[1], k[2]>> : k \in kept}
        types  == {k[3] : k \in kept}
        idxSeq == SortedIndex(index)
        tySeq  == SortedTypes(types)
    IN  [index |-> <<TIME_COL, NODE_COL>>,
         columns |-> tySeq,
         rows |-> [i \in 1..Len(idxSeq) |->
                     [c \in {TIME_COL, NODE_COL} \cup types |->
                        IF c = TIME_COL THEN idxSeq[i][1]
                        ELSE IF c = NODE_COL THEN idxSeq[i][2]
                        ELSE IF <<idxSeq[i][1], idxSeq[i][2], c>> \in kept
                             THEN agg(<<idxSeq[i][1], idxSeq[i][2], c>>)
                             ELSE NaN]]]


(***************************************************************************)
(* The schema normaliser (lines 254-273).                                  *)
(***************************************************************************)
CanonicalColumns == <<"Time", "Market", "Node", "LMP", "Energy", "Congestion", "Loss">>

\* df.reset_index(): the index levels become the leading columns.
ResetIndex(p) == [columns |-> p.index \o p.columns, rows |-> p.rows]

\* A variant of the rename table in which MCE keeps its name.
RenameMapNoEnergy(c) ==
    CASE c = TIME_COL -> "Time"
      [] c = NODE_COL -> "Node"
      [] c = "MCC" -> "Congestion"
      [] c = "MCL" -> "Loss"
      [] OTHER -> c

\* The rename table of lines 255-262.
RenameMap(c) ==
    CASE c = TIME_COL -> "Time"
      [] c = NODE_COL -> "Node"
      [] c = "LMP" -> "LMP"
      [] c = "MCE" -> "Energy"
      [] c = "MCC" -> "Congestion"
      [] c = "MCL" -> "Loss"
      [] OTHER -> c

\* df.rename(columns=...)
Rename(t) ==
    LET old == SeqToSet(t.columns)
    IN  [columns |-> [i \in 1..Len(t.columns) |-> RenameMap(t.columns[i])],
         rows |-> [i \in 1..Len(t.rows) |->
                     [c \in {RenameMap(o) : o \in old} |->
                        t.rows[i][CHOOSE o \in old : RenameMap(o) = c]]]]

\* pd.to_datetime(cell).tz_convert("US/Pacific"): the same instant on the Pacific clock.
ToPacific(cell) == WallClock([utc |-> ToInstant(cell), tz |-> "US/Pacific"])

\* df["Time"] = pd.to_datetime(df["Time"]).dt.tz_convert(default_timezone)
ConvertTime(t) ==
    [columns |-> t.columns,
     rows |-> [i \in 1..Len(t.rows) |->
                 [c \in SeqToSet(t.columns) |->
                    IF c = "Time" THEN ToPacific(t.rows[i][c]) ELSE t.rows[i][c]]]]

\* A variant that tags the rows with the remote market-run identifier.
MarketTagRunId(m) == MarketParams(m).market_run_id

\* The value line 269 writes into the Market column.
MarketTag(m) == m

\* df["Market"] = market: a new last column, the same value in every row.
SetMarket(t, m) ==
    LET cols == IF "Market" \in SeqToSet(t.columns) THEN t.columns
                ELSE Append(t.columns, "Market")
    IN  [columns |-> cols,
         rows |-> [i \in 1..Len(t.rows) |->
                     [c \in SeqToSet(cols) |->
                        IF c = "Market" THEN MarketTag(m) ELSE t.rows[i][c]]]]

\* df[[...]]: the listed columns in the listed order.
SelectColumns(t, cols) ==
    [columns |-> cols,
     rows |-> [i \in 1..Len(t.rows) |-> [c \in SeqToSet(cols) |-> t.rows[i][c]]]]

\* utils.filter_lmp_nodes(df, nodes): the rows whose Node is one of nodes.
filter_lmp_nodes(t, nodeList) ==
    [columns |-> t.columns,
     rows |-> SelectSeq(t.rows, LAMBDA row : row["Node"] \in SeqToSet(nodeList))]

\* The exceptions lines 254-271 can raise on a pivoted table; {} when they raise none.
\* With no row at all pandas fails either at the timezone conversion of the empty
\* Time column or at the column selection, depending on its version.
NormalizeErrors(p) ==
    LET renamed == Rename(ResetIndex(p))
        have    == SeqToSet(renamed.columns) \cup {"Market"}
    IN  IF SeqToSet(CanonicalColumns) \subseteq have THEN {}
        ELSE IF Len(p.rows) = 0 THEN {"TypeError", "KeyError"}
        ELSE {"KeyError"}

\* Lines 254-271 on a pivoted table that raises nothing.
Normalize(p, m) ==
    SelectColumns(SetMarket(ConvertTime(Rename(ResetIndex(p))), m), CanonicalColumns)

\* A variant that returns the node-filtered table.
ReturnValueFiltered(full, filtered) == filtered

\* return df (line 277): the table of line 271, not the filtered one of line 273.
ReturnValue(full, filtered) == full

\* A variant that leaves without the politeness sleep.
PolitenessSleepSkipped(secs) == <<>>

\* time.sleep(sleep) (line 275)
PolitenessSleep(secs) == <<SleepEvent(secs, 275)>>


(***************************************************************************)
(* The inputs: the caller's arguments and the payloads the endpoint sends. *)
(***************************************************************************)
MaxSleep == 1
MaxExtraRows == 1
DefaultSleep == 5

Dates ==
    {[y |-> 2022, m |-> 3, d |-> 12], [y |-> 2022, m |-> 3, d |-> 13],
     [y |-> 2022, m |-> 11, d |-> 6], [y |-> 2022, m |-> 12, d |-> 31]}
Markets == SupportedMarkets \cup {REAL_TIME_5_MIN}
NodeArgs ==
    {[is_none |-> TRUE, list |-> <<>>],
     [is_none |-> FALSE, list |-> <<"NODE_A">>],
     [is_none |-> FALSE, list |-> <<"NODE_A", "NODE_B">>]}
Sleeps == (0..MaxSleep) \cup {DefaultSleep}

\* Two interval starts, in GMT: 00:00 PST and 03:00 PDT of 2022-03-13.
T0 == [y |-> 2022, m |-> 3, d |-> 13, hh |-> 8, mm |-> 0]
T1 == [y |-> 2022, m |-> 3, d |-> 13, hh |-> 10, mm |-> 0]

CsvHeader(price_col) == <<TIME_COL, NODE_COL, "MARKET_RUN_ID", TYPE_COL, price_col>>

\* A CSV row from <<time, node, type, price cell>>.
CsvRow(spec, price_col) ==
    [c \in SeqToSet(CsvHeader(price_col)) |->
       IF c = TIME_COL THEN spec[1]
       ELSE IF c = NODE_COL THEN spec[2]
       ELSE IF c = TYPE_COL THEN spec[3]
       ELSE IF c = price_col THEN spec[4]
       ELSE "RUN"]

ZipOf(specs, price_col) ==
    [zip |-> TRUE,
     members |-> <<[header |-> CsvHeader(price_col),
                    rows |-> [i \in 1..Len(specs) |-> CsvRow(specs[i], price_col)]]>>]

ErrorPage == [zip |-> FALSE, members |-> <<>>]
EmptyZip == [zip |-> TRUE, members |-> <<>>]
ErrorCsv ==
    [zip |-> TRUE,
     members |-> <<[header |-> <<"ERR_CODE", "ERR_DESC">>,
                    rows |-> <<[ERR_CODE |-> "1000", ERR_DESC |-> "No data"]>>]>>]

\* The price cell the endpoint sends for each component type.
BasePrice(ty) ==
    CASE ty = "LMP" -> "25.0" [] ty = "MCE" -> "20.0" [] ty = "MCC" -> "3.0"
      [] ty = "MCL" -> "2.0" [] OTHER -> "0.0"

FullRows ==
    <<<<T0, "NODE_B", "LMP", "26.0">>, <<T0, "NODE_A", "LMP", "25.0">>,
      <<T0, "NODE_A", "MCE", "20.0">>, <<T0, "NODE_A", "MCC", "3.0">>,
      <<T0, "NODE_A", "MCL", "2.0">>, <<T0, "NODE_A", "MGHG", "0.0">>,
      <<T1, "NODE_A", "LMP", "27.0">>>>
NoLossRows ==
    <<<<T0, "NODE_A", "LMP", "25.0">>, <<T0, "NODE_A", "MCE", "20.0">>,
      <<T0, "NODE_A", "MCC", "3.0">>>>
DuplicateRows ==
    <<<<T0, "NODE_A", "LMP", "">>, <<T0, "NODE_A", "LMP", "25.0">>,
      <<T0, "NODE_A", "LMP", "30.0">>, <<T0, "NODE_A", "MCE", "20.0">>,
      <<T0, "NODE_A", "MCE", "21.0">>, <<T0, "NODE_A", "MCC", "3.0">>,
      <<T0, "NODE_A", "MCL", "2.0">>>>

\* The bodies a 200 response carries, and those a failing response carries.
OkBodies ==
    {ErrorPage, EmptyZip, ErrorCsv, ZipOf(<<>>, "MW")}
    \cup {ZipOf(rows, pcol) : rows \in {FullRows, NoLossRows, DuplicateRows},
                              pcol \in {"MW", "PRC"}}
FailBodies == {ErrorPage, ZipOf(FullRows, "MW")}

Responses ==
    {[status_code |-> 200, content |-> b] : b \in OkBodies}
    \cup {[status_code |-> c, content |-> b] : c \in {429, 503}, b \in FailBodies}

(***************************************************************************)
(* The call, step by step.                                                 *)
(***************************************************************************)
Init ==
    /\ pc = "idle"
    /\ date \in Dates
    /\ market \in Markets
    /\ nodes \in NodeArgs
    /\ sleep \in Sleeps
    /\ url = NoUrl
    /\ PRICE_COL = ""
    /\ retry_num = 0
    /\ r = NoResponse
    /\ trace = <<>>
    /\ zbytes = NoContent
    /\ raw = EmptyTable
    /\ df = EmptyTable
    /\ data = EmptyTable
    /\ result = EmptyTable
    /\ error = None

\* Lines 189-223: the query is built, or the market is refused.
Call ==
    /\ pc = "idle"
    /\ LET p == MarketParams(market)
       IN  IF p.supported
           THEN /\ url' = BuildUrl(date, market, nodes)
                /\ PRICE_COL' = p.PRICE_COL
                /\ pc' = "get"
                /\ error' = error
           ELSE /\ url' = url
                /\ PRICE_COL' = PRICE_COL
                /\ pc' = "raised"
                /\ error' = "RuntimeError"
    /\ retry_num' = 0
    /\ UNCHANGED <<date, market, nodes, sleep, r, trace, zbytes, raw, df, data, result>>

\* Lines 224-230: one GET; a 200 leaves the loop, anything else counts a retry.
Get(resp) ==
    /\ pc = "get"
    /\ LoopContinues(retry_num)
    /\ r' = resp
    /\ trace' = Append(trace, GetEvent(resp))
    /\ IF resp.status_code = 200
       THEN /\ retry_num' = retry_num
            /\ pc' = AfterLoop(resp).pc
            /\ error' = AfterLoop(resp).error
       ELSE /\ retry_num' = retry_num + 1
            /\ pc' = "pause"
            /\ error' = error
    /\ UNCHANGED <<date, market, nodes, sleep, url, PRICE_COL, zbytes, raw, df, data, result>>

\* Lines 231-233 and the loop test that follows: the pause after a failed GET.
Pause ==
    /\ pc = "pause"
    /\ trace' = Append(trace, SleepEvent(RetryPause, 233))
    /\ IF LoopContinues(retry_num)
       THEN pc' = "get" /\ error' = error
       ELSE pc' = AfterLoop(r).pc /\ error' = AfterLoop(r).error
    /\ UNCHANGED <<date, market, nodes, sleep, url, PRICE_COL, retry_num, r, zbytes, raw,
                   df, data, result>>

\* Lines 235-245: the latest response is opened as a ZIP and its first member parsed.
Unpack ==
    /\ pc = "unpack"
    /\ zbytes' = r.content
    /\ LET e == UnpackError(r.content, PRICE_COL)
       IN  IF e # None
           THEN pc' = "raised" /\ error' = e /\ raw' = raw
           ELSE pc' = "pivot" /\ error' = error
                /\ raw' = ReadCsv(r.content.members[1], PRICE_COL)
    /\ UNCHANGED <<date, market, nodes, sleep, url, PRICE_COL, retry_num, r, trace, df,
                   data, result>>

\* Lines 247-252.
Pivot ==
    /\ pc = "pivot"
    /\ df' = PivotTable(raw, PRICE_COL)
    /\ pc' = "normalize"
    /\ UNCHANGED <<date, market, nodes, sleep, url, PRICE_COL, retry_num, r, trace, zbytes,
                   raw, data, result, error>>

\* Lines 254-273: rename, convert, tag, select, filter; or the exception they raise.
NormalizeStep ==
    /\ pc = "normalize"
    /\ IF NormalizeErrors(df) # {}
       THEN /\ error' \in NormalizeErrors(df)
            /\ pc' = "raised"
            /\ UNCHANGED <<df, data>>
       ELSE /\ df' = Normalize(df, market)
            /\ data' = filter_lmp_nodes(df', EffectiveNodes(nodes))
            /\ pc' = "sleep"
            /\ error' = error
    /\ UNCHANGED <<date, market, nodes, sleep, url, PRICE_COL, retry_num, r, trace, zbytes,
                   raw, result>>

\* Lines 275-277.
SleepReturn ==
    /\ pc = "sleep"
    /\ trace' = trace \o PolitenessSleep(sleep)
    /\ result' = ReturnValue(df, data)
    /\ pc' = "returned"
    /\ UNCHANGED <<date, market, nodes, sleep, url, PRICE_COL, retry_num, r, zbytes, raw, df,
                   data, error>>

Next ==
    \/ Call
    \/ \E resp \in Responses : Get(resp)
    \/ Pause
    \/ Unpack
    \/ Pivot
    \/ NormalizeStep
    \/ SleepReturn

Spec == Init /\ [][Next]_vars

(***************************************************************************)
(* The reshaping alone: the call has issued one successful GET and parsed  *)
(* its CSV; the payload ranges over every subset of the component types    *)
(* with at most one further row before and MaxExtraRows after, which may   *)
(* repeat a key or carry an empty price cell.                              *)
(***************************************************************************)
BoundedSeqs(D, n) == UNION {[1..k -> D] : k \in 0..n}

ExtraRows ==
    {<<T0, k[1], k[2], cell>> :
       k \in {<<"NODE_A", "LMP">>, <<"NODE_A", "MGHG">>, <<"NODE_B", "LMP">>},
       cell \in {"", "30.0"}}

\* One NODE_A row at T0 for each type of S, in the order of TypeNames.
TypeRows(S) ==
    LET present == SortedTypes(S)
    IN  [i \in 1..Len(present) |-> <<T0, "NODE_A", present[i], BasePrice(present[i])>>]

TableInputs ==
    {pre \o TypeRows(S) \o post :
       S \in SUBSET SeqToSet(TypeNames),
       pre \in BoundedSeqs(ExtraRows, 1),
       post \in BoundedSeqs(ExtraRows, MaxExtraRows)}

InitTable ==
    \E rows \in TableInputs,
       m \in {DAY_AHEAD_HOURLY, REAL_TIME_15_MIN} :
       LET resp == [status_code |-> 200,
                    content |-> ZipOf(rows, MarketParams(m).PRICE_COL)]
       IN  /\ pc = "pivot"
           /\ date = [y |-> 2022, m |-> 3, d |-> 13]
           /\ market = m
           /\ nodes = [is_none |-> FALSE, list |-> <<"NODE_A">>]
           /\ sleep = DefaultSleep
           /\ url = BuildUrl(date, market, nodes)
           /\ PRICE_COL = MarketParams(m).PRICE_COL
           /\ retry_num = 0
           /\ r = resp
           /\ trace = <<GetEvent(resp)>>
           /\ zbytes = resp.content
           /\ raw = ReadCsv(resp.content.members[1], PRICE_COL)
           /\ df = EmptyTable
           /\ data = EmptyTable
           /\ result = EmptyTable
           /\ error = None

NextTable ==
    \/ Pivot
    \/ NormalizeStep
    \/ SleepReturn

SpecTable == InitTable /\ [][NextTable]_vars


(***************************************************************************)
(* Properties.                                                             *)
(***************************************************************************)
GetEvents == SelectSeq(trace, LAMBDA e : e.op = "GET")
RetryPauses == SelectSeq(trace, LAMBDA e : e.op = "sleep" /\ e.line = 233)
PolitenessSleeps == SelectSeq(trace, LAMBDA e : e.op = "sleep" /\ e.line = 275)

Failed(e) == e.response.status_code # 200
FailedGets == SelectSeq(GetEvents, Failed)

\* The retry loop is over: control is at line 235 or beyond.
LoopLeft == pc \in {"unpack", "pivot", "normalize", "sleep", "returned"}
            \/ (pc = "raised" /\ Len(GetEvents) > 0)

\* Three GETs were issued and none answered 200.
ThreeFailures == Len(GetEvents) = 3 /\ Len(FailedGets) = 3

KnownTypes == {"LMP", "MCE", "MCC", "MCL"}

\* The component types that occur in the parsed rows with a price that is not NaN.
ValuedTypes == {raw.rows[i][TYPE_COL] : i \in {j \in 1..Len(raw.rows) : raw.rows[j][PRICE_COL] # NaN}}

\* The cell of a pivoted table for (time, node, type); NaN when it has none.
Cell(p, t, n, ty) ==
    IF ty \in SeqToSet(p.columns)
       /\ \E i \in 1..Len(p.rows) : p.rows[i][TIME_COL] = t /\ p.rows[i][NODE_COL] = n
    THEN LET i == CHOOSE j \in 1..Len(p.rows) :
                    p.rows[j][TIME_COL] = t /\ p.rows[j][NODE_COL] = n
         IN  p.rows[i][ty]
    ELSE NaN

SameKey(i, j) ==
    /\ raw.rows[i][TIME_COL] = raw.rows[j][TIME_COL]
    /\ raw.rows[i][NODE_COL] = raw.rows[j][NODE_COL]
    /\ raw.rows[i][TYPE_COL] = raw.rows[j][TYPE_COL]

CellOfRow(i) == Cell(df, raw.rows[i][TIME_COL], raw.rows[i][NODE_COL], raw.rows[i][TYPE_COL])

\* C1: once the loop is left after three failed GETs, exactly three GETs and exactly
\* two 5-second pauses have been issued (none after the third GET).
C1_ThreeFailuresTwoPauses ==
    (LoopLeft /\ ThreeFailures) =>
        /\ Len(GetEvents) = 3
        /\ Len(RetryPauses) = 2

\* C2: when all three GETs fail the loop raises nothing of its own: control reaches the
\* unpacking with the third response as r, that response's body is what ZipFile is
\* given, and an exception, if any, is one of the unpacking and reshaping steps.
C2_ExhaustedResponsePassedOn ==
    (ThreeFailures /\ pc # "pause") =>
        /\ LoopLeft
        /\ r = GetEvents[3].response
        /\ pc = "unpack" => error = None
        /\ pc # "unpack" => zbytes = GetEvents[3].response.content
        /\ pc = "raised" =>
             error \in {"BadZipFile", "IndexError", "ValueError", "KeyError", "TypeError"}

C2_Witness ==
    /\ ThreeFailures
    /\ pc = "raised"
    /\ error = "BadZipFile"
    /\ zbytes = ErrorPage

\* C3: a call with an unsupported market ends with the market-unsupported error and
\* has issued no GET and no sleep of either kind.
C3_UnsupportedMarketFailsFast ==
    (market \notin SupportedMarkets /\ pc # "idle") =>
        /\ pc = "raised"
        /\ error = "RuntimeError"
        /\ trace = <<>>

C3_Witness == market = REAL_TIME_5_MIN /\ pc = "raised" /\ error = "RuntimeError"

\* C4 as claimed: every call that issued a GET and has ended, by return or by
\* exception, slept the politeness delay once as its last step.
C4_SleepsBeforeLeavingAlways ==
    (pc \in {"returned", "raised"} /\ Len(GetEvents) > 0) =>
        /\ Len(PolitenessSleeps) = 1
        /\ trace[Len(trace)] = SleepEvent(sleep, 275)

\* C4 as amended: a call that returns slept the caller's delay exactly once, as its
\* last step, whether the loop ended on a 200 or on exhausted retries; a call that
\* ends by an exception has not slept the politeness delay.
C4_SleepsBeforeReturningOnly ==
    /\ pc = "returned" =>
         /\ Len(PolitenessSleeps) = 1
         /\ trace[Len(trace)] = SleepEvent(sleep, 275)
    /\ pc # "returned" => Len(PolitenessSleeps) = 0

C4_Witness ==
    /\ pc = "returned"
    /\ ThreeFailures
    /\ sleep = 1

\* C5 as claimed: every call whose payload was unpacked ends by returning a table
\* whose columns are the seven canonical ones, in order.
C5_CanonicalColumnsAlways ==
    (pc \in {"returned", "raised"} /\ error \notin {"RuntimeError", "BadZipFile",
                                                    "IndexError", "ValueError"}) =>
        /\ pc = "returned"
        /\ result.columns = CanonicalColumns

\* C5 as amended: when each of LMP, MCE, MCC, MCL occurs in the payload with a price,
\* the call returns a table whose columns, and every row's fields, are exactly the
\* seven canonical ones in order, any other type being dropped; when one of the four
\* is lacking the call ends by an exception raised in the normalisation.
C5_CanonicalColumnsWhenAllFourPresent ==
    (pc \in {"returned", "raised"} /\ error \notin {"RuntimeError", "BadZipFile",
                                                    "IndexError", "ValueError"}) =>
        IF KnownTypes \subseteq ValuedTypes
        THEN /\ pc = "returned"
             /\ result.columns = CanonicalColumns
             /\ \A i \in 1..Len(result.rows) :
                  DOMAIN result.rows[i] = SeqToSet(CanonicalColumns)
        ELSE /\ pc = "raised"
             /\ error \in {"KeyError", "TypeError"}

C5_Witness ==
    /\ pc = "returned"
    /\ "MGHG" \in ValuedTypes
    /\ Len(result.rows) = 2

\* C6: the enddatetime of the query is local midnight of the next calendar day in
\* US/Pacific, formatted in UTC.
C6_EndIsNextLocalMidnight ==
    (pc # "idle" /\ market \in SupportedMarkets) =>
        url.enddatetime = Strftime(TzConvertUTC(PlusDateOffset1(HandleDate(date))))

\* C7: the table returned is the whole normalised table: every (time, node) of the
\* payload that has a price is a row of it, requested node or not.
C7_ReturnsUnfilteredTable ==
    pc = "returned" =>
        /\ result = df
        /\ \A i \in 1..Len(raw.rows) :
             raw.rows[i][PRICE_COL] # NaN =>
               \E j \in 1..Len(result.rows) :
                  /\ result.rows[j]["Node"] = raw.rows[i][NODE_COL]
                  /\ result.rows[j]["Time"] = ToPacific(raw.rows[i][TIME_COL])

C7_Witness ==
    /\ pc = "returned"
    /\ \E j \in 1..Len(result.rows) :
          result.rows[j]["Node"] \notin SeqToSet(EffectiveNodes(nodes))
    /\ Len(data.rows) < Len(result.rows)

\* C8 as claimed: after the pivot, the cell of every key holds the price of the first
\* row with that key in input order.
C8_FirstRowWins ==
    pc = "normalize" =>
        \A i \in 1..Len(raw.rows) :
            (\A j \in 1..(i - 1) : ~SameKey(i, j)) => CellOfRow(i) = raw.rows[i][PRICE_COL]

\* C8 as amended: after the pivot, the cell of every key holds the price of the first
\* row with that key, in input order, whose price is not NaN; later rows of the key
\* are discarded, and a key none of whose rows has a price has no cell.
C8_FirstValuedRowWins ==
    pc = "normalize" =>
        \A i \in 1..Len(raw.rows) :
            /\ (/\ raw.rows[i][PRICE_COL] # NaN
                /\ \A j \in 1..(i - 1) : SameKey(i, j) => raw.rows[j][PRICE_COL] = NaN)
               => CellOfRow(i) = raw.rows[i][PRICE_COL]
            /\ (\A j \in 1..Len(raw.rows) : SameKey(i, j) => raw.rows[j][PRICE_COL] = NaN)
               => CellOfRow(i) = NaN

C8_Witness ==
    /\ pc = "normalize"
    /\ \E i, j, k \in 1..Len(raw.rows) :
         /\ i < j /\ j < k
         /\ SameKey(i, j) /\ SameKey(j, k)
         /\ raw.rows[i][PRICE_COL] = NaN
         /\ raw.rows[j][PRICE_COL] # NaN
         /\ raw.rows[k][PRICE_COL] # NaN
         /\ raw.rows[k][PRICE_COL] # raw.rows[j][PRICE_COL]
         /\ CellOfRow(i) = raw.rows[j][PRICE_COL]

\* C9: every row of the returned table carries the requested market in its Market
\* field, whichever price column the market selects.
C9_MarketTagUniform ==
    pc = "returned" =>
        \A i \in 1..Len(result.rows) : result.rows[i]["Market"] = market

C9_Witness ==
    /\ pc = "returned"
    /\ PRICE_COL = "PRC"
    /\ Len(result.rows) = 3

\* C10: at most three GETs are issued; no GET follows a 200; each failed GET is
\* followed by one pause, so a first 200 at attempt k comes after k - 1 pauses and
\* nothing of the loop follows it; and the body unpacked is that response's.
C10_RetryLoop ==
    /\ Len(GetEvents) <= 3
    /\ \A i \in 1..(Len(GetEvents) - 1) : Failed(GetEvents[i])
    /\ Len(RetryPauses) = Len(FailedGets) - (IF pc = "pause" THEN 1 ELSE 0)
    /\ \A k \in 1..Len(GetEvents) :
         ~Failed(GetEvents[k]) =>
            /\ k = Len(GetEvents)
            /\ Len(RetryPauses) = k - 1
            /\ trace[2 * k - 1] = GetEvents[k]
            /\ \A i \in (2 * k)..Len(trace) : trace[i] = SleepEvent(sleep, 275)
            /\ LoopLeft
            /\ r = GetEvents[k].response
            /\ pc # "unpack" => zbytes = GetEvents[k].response.content

C10_Witness ==
    /\ Len(GetEvents) = 3
    /\ ~Failed(GetEvents[3])
    /\ pc = "returned"

====
